---- MODULE Spec2Model ----
(***************************************************************************)
(* Model of pyasic's ESPMiner/BitAxe extra configuration                   *)
(* (pyasic/config/extra_config/espminer.py) and of the MinerConfig         *)
(* composition that merges it into the ESPMiner wire payload.              *)
(*                                                                         *)
(* A Python dict is modelled as the sequence of its <<key, value>> items   *)
(* in insertion order, with unique keys.  Python's None (and JSON null) is *)
(* the out-of-band value None; every other field value is a small          *)
(* integer, as the ESPMiner API reports them.                              *)
(***************************************************************************)
EXTENDS Integers, Sequences, FiniteSets, TLC

(***************************************************************************)
(* Bounds of the model.                                                    *)
(***************************************************************************)
\* Field values range over 0..MaxVal (0 is a legal, set value).
MaxVal == 1
\* A device response carries at most MaxExtraKeys of the seven extra keys.
MaxExtraKeys == 3
\* A caller names at most MaxKwargs fields when it constructs an instance.
MaxKwargs == 3

\* Python's None; the default of every field (espminer.py:27-37) and the
\* result of dict.get on a missing key.
None == -1

\* A wire value of the wrong type for its field: one that parses as no
\* integer.
Unparsable == -2

Values == 0..MaxVal
OptInt == Values \cup {None}

(***************************************************************************)
(* Python dict primitives.                                                 *)
(***************************************************************************)
DictKeys(d) == {d[i][1] : i \in 1..Len(d)}

DictHas(d, k) == \E i \in 1..Len(d) : d[i][1] = k

\* d[k], for a key that is present
DictAt(d, k) == d[CHOOSE i \in 1..Len(d) : d[i][1] = k][2]

\* d.get(k): the value, or None when the key is missing
DictGet(d, k) == IF DictHas(d, k) THEN DictAt(d, k) ELSE None

\* d[k] = v: replaces the value in place, or appends a new item
DictSet(d, k, v) ==
    IF DictHas(d, k)
    THEN [i \in 1..Len(d) |-> IF d[i][1] = k THEN <<k, v>> ELSE d[i]]
    ELSE Append(d, <<k, v>>)

\* {**a, **b}
RECURSIVE DictMerge(_, _)
DictMerge(a, b) ==
    IF b = <<>> THEN a
    ELSE DictMerge(DictSet(a, Head(b)[1], Head(b)[2]), Tail(b))

\* a == b on dicts: same keys, same values, whatever the order
DictEq(a, b) ==
    /\ DictKeys(a) = DictKeys(b)
    /\ \A k \in DictKeys(a) : DictAt(a, k) = DictAt(b, k)

\* getattr(obj, name, default)
getattr(obj, name, default) ==
    IF name \in DOMAIN obj THEN obj[name] ELSE default

(***************************************************************************)
(* ESPMinerExtraConfig                                                     *)
(***************************************************************************)
\* The seven declared fields, in declaration order.
FieldNames ==
    <<"rotation", "invertscreen", "display_timeout", "overheat_mode",
      "overclock_enabled", "stats_frequency", "min_fan_speed">>

FieldSet == {FieldNames[i] : i \in 1..Len(FieldNames)}

\* A variant of the validation that stores whatever it is given.
validate_field_keep(value) == value

\* The validation of one field value: an integer or None is kept, a value
\* that parses as no integer resolves to unset.
validate_field(value) == IF value = Unparsable THEN None ELSE value

\* cls(rotation=..., ..., min_fan_speed=...)
ESPMinerExtraConfig(rotation, invertscreen, display_timeout, overheat_mode, overclock_enabled, stats_frequency, min_fan_speed) ==
    [rotation          |-> validate_field(rotation),
     invertscreen      |-> validate_field(invertscreen),
     display_timeout   |-> validate_field(display_timeout),
     overheat_mode     |-> validate_field(overheat_mode),
     overclock_enabled |-> validate_field(overclock_enabled),
     stats_frequency   |-> validate_field(stats_frequency),
     min_fan_speed     |-> validate_field(min_fan_speed)]

\* A variant of the declarations that defaults every field to 0.
field_default_zero(field_name) == 0

\* rotation: int | None = None, ...: the default of a field
field_default(field_name) == None

\* The value a field gets from the keyword arguments of a construction.
kwarg(kwargs, field_name) ==
    IF DictHas(kwargs, field_name) THEN DictAt(kwargs, field_name)
    ELSE field_default(field_name)

\* ESPMinerExtraConfig(**kwargs)
new_ESPMinerExtraConfig(kwargs) ==
    ESPMinerExtraConfig(
        kwarg(kwargs, "rotation"),
        kwarg(kwargs, "invertscreen"),
        kwarg(kwargs, "display_timeout"),
        kwarg(kwargs, "overheat_mode"),
        kwarg(kwargs, "overclock_enabled"),
        kwarg(kwargs, "stats_frequency"),
        kwarg(kwargs, "min_fan_speed"))

\* ESPMinerExtraConfig(): every field at its default
DefaultExtraConfig ==
    ESPMinerExtraConfig(None, None, None, None, None, None, None)

\* A variant of the table that leaves display_timeout in snake_case.
field_mapping_snake ==
    <<<<"rotation", "rotation">>,
      <<"invertscreen", "invertscreen">>,
      <<"display_timeout", "display_timeout">>,
      <<"overheat_mode", "overheat_mode">>,
      <<"overclock_enabled", "overclockEnabled">>,
      <<"stats_frequency", "statsFrequency">>,
      <<"min_fan_speed", "minFanSpeed">>>>

\* A variant of the table whose min_fan_speed entry reuses the fan indicator.
field_mapping_collide ==
    <<<<"rotation", "rotation">>,
      <<"invertscreen", "invertscreen">>,
      <<"display_timeout", "displayTimeout">>,
      <<"overheat_mode", "overheat_mode">>,
      <<"overclock_enabled", "overclockEnabled">>,
      <<"stats_frequency", "statsFrequency">>,
      <<"min_fan_speed", "autofanspeed">>>>

\* A variant of the table that sends stats_frequency under a telemetry key.
field_mapping_telemetry ==
    <<<<"rotation", "rotation">>,
      <<"invertscreen", "invertscreen">>,
      <<"display_timeout", "displayTimeout">>,
      <<"overheat_mode", "overheat_mode">>,
      <<"overclock_enabled", "overclockEnabled">>,
      <<"stats_frequency", "networkDifficulty">>,
      <<"min_fan_speed", "minFanSpeed">>>>

\* A variant of the table with its first two entries exchanged.
field_mapping_reordered ==
    <<<<"invertscreen", "invertscreen">>,
      <<"rotation", "rotation">>,
      <<"display_timeout", "displayTimeout">>,
      <<"overheat_mode", "overheat_mode">>,
      <<"overclock_enabled", "overclockEnabled">>,
      <<"stats_frequency", "statsFrequency">>,
      <<"min_fan_speed", "minFanSpeed">>>>

\* field_mapping: our field name -> API field name, in the dict's order
field_mapping ==
    <<<<"rotation", "rotation">>,
      <<"invertscreen", "invertscreen">>,
      <<"display_timeout", "displayTimeout">>,
      <<"overheat_mode", "overheat_mode">>,
      <<"overclock_enabled", "overclockEnabled">>,
      <<"stats_frequency", "statsFrequency">>,
      <<"min_fan_speed", "minFanSpeed">>>>

\* A variant of the test of the loop that drops falsy values (if value:).
is_emitted_truthy(value) == value # None /\ value # 0

\* if value is not None
is_emitted(value) == value # None

\* for field_name, api_name in field_mapping.items(): ...
RECURSIVE as_espminer_loop(_, _, _)
as_espminer_loop(self, i, result) ==
    IF i > Len(field_mapping) THEN result
    ELSE LET field_name == field_mapping[i][1]
             api_name   == field_mapping[i][2]
             value      == getattr(self, field_name, None)
         IN  as_espminer_loop(self, i + 1,
                 IF is_emitted(value)
                 THEN DictSet(result, api_name, value)
                 ELSE result)

\* ESPMinerExtraConfig.as_espminer(self)
as_espminer(self) == as_espminer_loop(self, 1, <<>>)

\* A variant that reads display_timeout from its snake_case name.
from_espminer_snake(web_system_info) ==
    ESPMinerExtraConfig(
        DictGet(web_system_info, "rotation"),
        DictGet(web_system_info, "invertscreen"),
        DictGet(web_system_info, "display_timeout"),
        DictGet(web_system_info, "overheat_mode"),
        DictGet(web_system_info, "overclockEnabled"),
        DictGet(web_system_info, "statsFrequency"),
        DictGet(web_system_info, "minFanSpeed"))

\* A variant with a copy-paste slip: stats_frequency read from overclockEnabled.
from_espminer_slip(web_system_info) ==
    ESPMinerExtraConfig(
        DictGet(web_system_info, "rotation"),
        DictGet(web_system_info, "invertscreen"),
        DictGet(web_system_info, "displayTimeout"),
        DictGet(web_system_info, "overheat_mode"),
        DictGet(web_system_info, "overclockEnabled"),
        DictGet(web_system_info, "overclockEnabled"),
        DictGet(web_system_info, "minFanSpeed"))

\* A variant of dict.get that defaults a missing key to 0: get(k, 0).
DictGetZero(d, k) == IF DictHas(d, k) THEN DictAt(d, k) ELSE 0

from_espminer_zero(web_system_info) ==
    ESPMinerExtraConfig(
        DictGetZero(web_system_info, "rotation"),
        DictGetZero(web_system_info, "invertscreen"),
        DictGetZero(web_system_info, "displayTimeout"),
        DictGetZero(web_system_info, "overheat_mode"),
        DictGetZero(web_system_info, "overclockEnabled"),
        DictGetZero(web_system_info, "statsFrequency"),
        DictGetZero(web_system_info, "minFanSpeed"))

\* ESPMinerExtraConfig.from_espminer(web_system_info)
from_espminer(web_system_info) ==
    ESPMinerExtraConfig(
        DictGet(web_system_info, "rotation"),
        DictGet(web_system_info, "invertscreen"),
        DictGet(web_system_info, "displayTimeout"),
        DictGet(web_system_info, "overheat_mode"),
        DictGet(web_system_info, "overclockEnabled"),
        DictGet(web_system_info, "statsFrequency"),
        DictGet(web_system_info, "minFanSpeed"))

(***************************************************************************)
(* MinerConfig: pools, fan mode and the optional extra_config slot, and    *)
(* its ESPMiner composition.                                               *)
(***************************************************************************)
\* extra_config = None
NoExtraConfig == <<>>

\* extra_config = e
Attached(e) == <<e>>

\* The pool of the ESPMiner payloads: url, port, user, password.
SamplePool == [url |-> 1, port |-> 3333, user |-> 1, password |-> 1]

\* Objects live in a heap, a sequence indexed by reference; 0 refers to None.
\* A variant of attaching that stores the reference it is given.
attach_alias(heap, ref) == [heap |-> heap, ref |-> ref]

\* Assigning the instance at ref to the extra_config of a MinerConfig: the
\* config gets a copy of its own, at a fresh reference.
attach(heap, ref) == [heap |-> Append(heap, heap[ref]), ref |-> Len(heap) + 1]

\* cfg.extra_config.<field_name> = value, on the instance at ref
\* A variant that assigns to the instance the caller constructed, reference
\* 1, whatever reference it is given.
setattr_original(heap, ref, field_name, value) ==
    [heap EXCEPT ![1] = [@ EXCEPT ![field_name] = value]]

setattr(heap, ref, field_name, value) ==
    [heap EXCEPT ![ref] = [@ EXCEPT ![field_name] = value]]

\* MinerConfig(pools=..., fan_mode=..., extra_config=...)
MinerConfig(pools, fan_mode, extra_config) ==
    [pools |-> pools, fan_mode |-> fan_mode, extra_config |-> extra_config]

\* MinerConfig(): no pools, automatic fan control, no extra_config
DefaultMinerConfig == MinerConfig(<<>>, 1, NoExtraConfig)

\* The pool keys of the payload, empty when no pool is configured.
pools_as_espminer(pools) ==
    IF pools = <<>> THEN <<>>
    ELSE <<<<"stratumURL", pools[1].url>>,
           <<"stratumPort", pools[1].port>>,
           <<"stratumUser", pools[1].user>>,
           <<"stratumPassword", pools[1].password>>>>

pools_from_espminer(web_system_info) ==
    IF DictHas(web_system_info, "stratumURL")
    THEN <<[url      |-> DictGet(web_system_info, "stratumURL"),
            port     |-> DictGet(web_system_info, "stratumPort"),
            user     |-> DictGet(web_system_info, "stratumUser"),
            password |-> DictGet(web_system_info, "stratumPassword")]>>
    ELSE <<>>

\* A response that is a JSON array instead of an object.
NotAMapping == <<<<"<array>", 0>>>>

is_mapping(web_system_info) == web_system_info # NotAMapping

\* The extra_config of another vendor's variant.
OtherVendorExtraConfig == [vendor_field |-> 0]

\* A variant of the check that accepts every variant.
variant_matches_any(extra_config) == TRUE

\* The id/type check of the composition: no extra_config, or an
\* ESPMinerExtraConfig.
variant_matches(extra_config) ==
    \/ extra_config = NoExtraConfig
    \/ DOMAIN extra_config[1] = FieldSet

\* The fan keys of the payload: the fan-mode indicator.
fan_mode_as_espminer(fan_mode) == <<<<"autofanspeed", fan_mode>>>>

\* The fan mode cannot be parsed without its indicator.
fan_mode_parses(web_system_info) == DictHas(web_system_info, "autofanspeed")

fan_mode_from_espminer(web_system_info) == DictAt(web_system_info, "autofanspeed")

\* A variant of the base parse that only looks for the fan indicator.
base_parses_keys_only(web_system_info) == fan_mode_parses(web_system_info)

\* The base fields parse: the payload is a mapping, the fan indicator is
\* there and every base field has the type of its field.
base_parses(web_system_info) ==
    /\ is_mapping(web_system_info)
    /\ fan_mode_parses(web_system_info)
    /\ \A k \in {"autofanspeed", "stratumURL", "stratumPort", "stratumUser",
                 "stratumPassword"} :
          DictGet(web_system_info, k) # Unparsable

\* all seven fields of the instance are None
all_unset(e) == \A f \in FieldSet : e[f] = None

\* A variant that keeps the parsed instance even when it is empty.
extra_config_from_espminer_keep(web_system_info) ==
    Attached(from_espminer(web_system_info))

\* The extra_config of a parsed MinerConfig: None when nothing was observed.
extra_config_from_espminer(web_system_info) ==
    LET e == from_espminer(web_system_info)
    IN  IF all_unset(e) THEN NoExtraConfig ELSE Attached(e)

\* A variant that serializes a default instance when extra_config is None.
extra_config_as_espminer_default(extra_config) ==
    IF extra_config = NoExtraConfig
    THEN [i \in 1..Len(field_mapping) |-> <<field_mapping[i][2], 0>>]
    ELSE as_espminer(extra_config[1])

\* The extra keys of the payload: extra_config.as_espminer() when attached.
extra_config_as_espminer(extra_config) ==
    IF extra_config = NoExtraConfig THEN <<>>
    ELSE as_espminer(extra_config[1])

\* MinerConfig.as_espminer(self)
MinerConfig_as_espminer(self) ==
    DictMerge(DictMerge(fan_mode_as_espminer(self.fan_mode),
                        pools_as_espminer(self.pools)),
              extra_config_as_espminer(self.extra_config))

\* MinerConfig.from_espminer(web_system_info), for a payload that parses
MinerConfig_from_espminer(web_system_info) ==
    MinerConfig(pools_from_espminer(web_system_info),
                fan_mode_from_espminer(web_system_info),
                extra_config_from_espminer(web_system_info))

(***************************************************************************)
(* Inputs: the instances a caller constructs and the payloads a device     *)
(* returns.                                                                *)
(***************************************************************************)
\* Every ESPMinerExtraConfig: each field None or an integer.
Instances == [FieldSet -> OptInt]

\* The seven extra keys as the ESPMiner API spells them.
ExtraKeys ==
    {"rotation", "invertscreen", "displayTimeout", "overheat_mode",
     "overclockEnabled", "statsFrequency", "minFanSpeed"}

\* Keys of a system/info response that are no extra-config key: telemetry
\* and the snake_case spellings the API does not use.
OtherKeys ==
    <<"networkDifficulty", "bestDiff", "display_timeout",
      "overclock_enabled", "stats_frequency", "min_fan_speed">>

\* The order in which a response lists its keys.
KeyOrder ==
    <<"stratumURL", "stratumPort", "stratumUser", "stratumPassword",
      "autofanspeed", "rotation", "invertscreen", "displayTimeout",
      "overheat_mode", "overclockEnabled", "statsFrequency", "minFanSpeed">>
    \o OtherKeys

\* The dict with the items of the function f, in KeyOrder.
RECURSIVE DictOfFrom(_, _)
DictOfFrom(f, i) ==
    IF i > Len(KeyOrder) THEN <<>>
    ELSE (IF KeyOrder[i] \in DOMAIN f
          THEN <<<<KeyOrder[i], f[KeyOrder[i]]>>>> ELSE <<>>)
         \o DictOfFrom(f, i + 1)

DictOf(f) == DictOfFrom(f, 1)

\* The extra part of a response: some extra keys, each an integer or null.
ExtraParts ==
    UNION {[S -> OptInt] : S \in {T \in SUBSET ExtraKeys :
                                     Cardinality(T) <= MaxExtraKeys}}

\* The base part: nothing, or the pool with or without the fan indicator.
BaseParts ==
    {<<>>, pools_as_espminer(<<SamplePool>>)}
    \cup {DictMerge(pools_as_espminer(<<SamplePool>>), fan_mode_as_espminer(a)) :
            a \in {0, 1}}

\* The other part: nothing, or every other key.
OtherParts ==
    {<<>>, [i \in 1..Len(OtherKeys) |-> <<OtherKeys[i], 1>>]}

Payloads ==
    {DictMerge(DictMerge(b, DictOf(x)), o) :
        b \in BaseParts, x \in ExtraParts, o \in OtherParts}

\* The keyword arguments of a construction: some fields, named in any order
\* the caller likes (here: declaration order).
KwargsOf(f) ==
    LET names == SelectSeq(FieldNames, LAMBDA n : n \in DOMAIN f)
    IN  [i \in 1..Len(names) |-> <<names[i], f[names[i]]>>]

KwargDicts ==
    {KwargsOf(f) :
        f \in UNION {[S -> OptInt] : S \in {T \in SUBSET FieldSet :
                                              Cardinality(T) <= MaxKwargs}}}

\* The fields the callers of the tests assign to.
MutableFields == {"rotation", "invertscreen", "display_timeout"}

\* The instances the tests attach to a MinerConfig: only those fields set.
AttachInstances ==
    {e \in Instances : \A f \in FieldSet \ MutableFields : e[f] = None}

\* The extra part of a response whose values may have the wrong type.
WildExtraParts ==
    UNION {[S -> OptInt \cup {Unparsable}] :
              S \in {T \in SUBSET ExtraKeys : Cardinality(T) <= MaxExtraKeys}}

\* Base parts: none, a good one, and two with a base field of the wrong type.
WildBaseParts ==
    {<<>>,
     DictMerge(pools_as_espminer(<<SamplePool>>), fan_mode_as_espminer(1)),
     DictMerge(pools_as_espminer(<<SamplePool>>),
               fan_mode_as_espminer(Unparsable)),
     DictMerge(pools_as_espminer(<<[SamplePool EXCEPT !.port = Unparsable]>>),
               fan_mode_as_espminer(1))}

\* Responses of any shape: not a mapping, or values of the wrong type.
WildPayloads ==
    {NotAMapping}
    \cup {DictMerge(b, DictOf(x)) : b \in WildBaseParts, x \in WildExtraParts}

\* The MinerConfig objects a caller builds.
MinerConfigs ==
    {MinerConfig(p, a, NoExtraConfig) :
        p \in {<<>>, <<SamplePool>>}, a \in {0, 1}}
    \cup {MinerConfig(<<SamplePool>>, a, Attached(e)) :
            a \in {0, 1}, e \in Instances}
    \cup {MinerConfig(<<SamplePool>>, a, Attached(OtherVendorExtraConfig)) :
            a \in {0, 1}}

(***************************************************************************)
(* State.                                                                  *)
(***************************************************************************)
VARIABLES
    pc,               \* where the caller is
    extra,            \* the ESPMinerExtraConfig the caller constructed
    web_system_info,  \* the dict handed to from_espminer
    result,           \* the dict as_espminer returned
    parsed,           \* the instance ESPMinerExtraConfig.from_espminer returned
    config,           \* the MinerConfig the caller constructed
    wire,             \* the dict MinerConfig.as_espminer returned
    parsed_config,    \* the MinerConfig that MinerConfig.from_espminer returned
    error,            \* the exception the last call raised, "" when none
    kwargs,           \* the keyword arguments of the construction
    heap,             \* the instances that are attached by reference
    a_extra_config,   \* the reference in A.extra_config, 0 for None
    b_extra_config,   \* the reference in B.extra_config, 0 for None
    b_before,         \* B's fields and payload when its extra_config was set
    assigned          \* the last value assigned to each field through A

attach_vars == <<heap, a_extra_config, b_extra_config, b_before, assigned>>

vars == <<pc, extra, web_system_info, result, parsed, config, wire,
          parsed_config, error, kwargs, heap, a_extra_config,
          b_extra_config, b_before, assigned>>

\* Nothing is attached by reference.
\* No field has been assigned yet.
NothingAssigned == [f \in {} |-> None]

NothingAttached ==
    /\ heap = <<>>
    /\ a_extra_config = 0
    /\ b_extra_config = 0
    /\ b_before = [fields |-> DefaultExtraConfig, wire |-> <<>>]
    /\ assigned = NothingAssigned

Init ==
    /\ result = <<>>
    /\ parsed = DefaultExtraConfig
    /\ wire = <<>>
    /\ parsed_config = DefaultMinerConfig
    /\ error = ""
    /\ NothingAttached
    /\ \/ /\ pc = "record"
          /\ extra \in Instances
          /\ web_system_info = <<>>
          /\ config = DefaultMinerConfig
          /\ kwargs = <<>>
       \/ /\ pc = "kwargs"
          /\ extra = DefaultExtraConfig
          /\ web_system_info = <<>>
          /\ config = DefaultMinerConfig
          /\ kwargs \in KwargDicts
       \/ /\ pc = "payload"
          /\ extra = DefaultExtraConfig
          /\ web_system_info \in Payloads
          /\ config = DefaultMinerConfig
          /\ kwargs = <<>>
       \/ /\ pc = "config"
          /\ extra = DefaultExtraConfig
          /\ web_system_info = <<>>
          /\ config \in MinerConfigs
          /\ kwargs = <<>>

\* extra = ESPMinerExtraConfig(**kwargs)
Construct ==
    /\ pc = "kwargs"
    /\ extra' = new_ESPMinerExtraConfig(kwargs)
    /\ pc' = "constructed"
    /\ UNCHANGED <<web_system_info, result, parsed, config, wire,
                   parsed_config, error, kwargs>>
    /\ UNCHANGED attach_vars

\* extra.as_espminer(), or parsed.as_espminer() on a parsed instance
AsEspminer ==
    /\ \/ /\ pc = "record"
          /\ result' = as_espminer(extra)
          /\ pc' = "record_wire"
       \/ /\ pc = "payload_parsed"
          /\ result' = as_espminer(parsed)
          /\ pc' = "payload_back"
       \/ /\ pc = "constructed"
          /\ result' = as_espminer(extra)
          /\ pc' = "constructed_wire"
    /\ UNCHANGED <<extra, web_system_info, parsed, config, wire,
                   parsed_config, error, kwargs>>
    /\ UNCHANGED attach_vars

\* ESPMinerExtraConfig.from_espminer on a response, or on a serialization
FromEspminer ==
    /\ \/ /\ pc = "payload"
          /\ web_system_info' = web_system_info
          /\ IF is_mapping(web_system_info)
             THEN /\ parsed' = from_espminer(web_system_info)
                  /\ pc' = "payload_parsed"
                  /\ UNCHANGED error
             ELSE \* web_system_info.get: no such attribute
                  /\ error' = "AttributeError"
                  /\ pc' = "extra_raised"
                  /\ UNCHANGED parsed
       \/ /\ pc = "record_wire"
          /\ web_system_info' = result
          /\ parsed' = from_espminer(result)
          /\ pc' = "record_back"
          /\ UNCHANGED error
    /\ UNCHANGED <<extra, result, config, wire, parsed_config, kwargs>>
    /\ UNCHANGED attach_vars

\* A variant that falls back to the default fan mode when the indicator
\* is missing.
MinerConfigFromEspminer_default ==
    /\ \/ /\ pc = "payload"
          /\ web_system_info' = web_system_info
       \/ /\ pc = "config_wire"
          /\ web_system_info' = wire
    /\ parsed_config' =
          MinerConfig(pools_from_espminer(web_system_info'),
                      IF fan_mode_parses(web_system_info')
                      THEN fan_mode_from_espminer(web_system_info')
                      ELSE DefaultMinerConfig.fan_mode,
                      extra_config_from_espminer(web_system_info'))
    /\ pc' = IF pc = "payload" THEN "payload_config" ELSE "config_back"
    /\ UNCHANGED <<extra, result, parsed, config, wire, error, kwargs>>
    /\ UNCHANGED attach_vars

\* MinerConfig.from_espminer on a response, or on a serialization
MinerConfigFromEspminer ==
    /\ \/ /\ pc = "payload"
          /\ web_system_info' = web_system_info
       \/ /\ pc = "config_wire"
          /\ web_system_info' = wire
    /\ IF base_parses(web_system_info')
       THEN /\ parsed_config' = MinerConfig_from_espminer(web_system_info')
            /\ pc' = IF pc = "payload" THEN "payload_config" ELSE "config_back"
            /\ UNCHANGED error
       ELSE /\ error' = "MalformedPayloadError"
            /\ pc' = "raised"
            /\ UNCHANGED parsed_config
    /\ UNCHANGED <<extra, result, parsed, config, wire, kwargs>>
    /\ UNCHANGED attach_vars

\* config.as_espminer(), or the same on a parsed MinerConfig
MinerConfigAsEspminer ==
    /\ \/ /\ pc = "config"
          /\ IF variant_matches(config.extra_config)
             THEN /\ wire' = MinerConfig_as_espminer(config)
                  /\ pc' = "config_wire"
                  /\ UNCHANGED error
             ELSE /\ error' = "ExtraConfigMismatch"
                  /\ pc' = "compose_raised"
                  /\ UNCHANGED wire
       \/ /\ pc = "payload_config"
          /\ wire' = MinerConfig_as_espminer(parsed_config)
          /\ pc' = "payload_config_back"
          /\ UNCHANGED error
    /\ UNCHANGED <<extra, web_system_info, result, parsed, config,
                   parsed_config, kwargs>>
    /\ UNCHANGED attach_vars

Next ==
    \/ Construct
    \/ AsEspminer
    \/ FromEspminer
    \/ MinerConfigFromEspminer
    \/ MinerConfigAsEspminer

Spec == Init /\ [][Next]_vars

\* The same, with responses of any shape among the inputs.
InitWild ==
    \/ Init
    \/ /\ result = <<>>
       /\ parsed = DefaultExtraConfig
       /\ wire = <<>>
       /\ parsed_config = DefaultMinerConfig
       /\ error = ""
       /\ NothingAttached
       /\ pc = "payload"
       /\ extra = DefaultExtraConfig
       /\ web_system_info \in WildPayloads
       /\ config = DefaultMinerConfig
       /\ kwargs = <<>>

SpecWild == InitWild /\ [][Next]_vars

(***************************************************************************)
(* One instance attached to two MinerConfig objects A and B, then mutated  *)
(* in place through A.                                                     *)
(***************************************************************************)
\* The MinerConfig that holds the instance at ref.
ConfigWith(ref) == MinerConfig(<<SamplePool>>, 1, Attached(heap[ref]))

\* extra_config = ESPMinerExtraConfig(...): the shared instance, reference 1
InitAttach ==
    /\ pc = "attach"
    /\ extra = DefaultExtraConfig
    /\ web_system_info = <<>>
    /\ result = <<>>
    /\ parsed = DefaultExtraConfig
    /\ config = DefaultMinerConfig
    /\ wire = <<>>
    /\ parsed_config = DefaultMinerConfig
    /\ error = ""
    /\ kwargs = <<>>
    /\ heap \in {<<e>> : e \in AttachInstances}
    /\ a_extra_config = 0
    /\ b_extra_config = 0
    /\ b_before = [fields |-> DefaultExtraConfig, wire |-> <<>>]
    /\ assigned = NothingAssigned

\* A = MinerConfig(pools=..., extra_config=extra_config)
AttachA ==
    /\ a_extra_config = 0
    /\ heap' = attach(heap, 1).heap
    /\ a_extra_config' = attach(heap, 1).ref
    /\ UNCHANGED <<b_extra_config, b_before, assigned>>
    /\ UNCHANGED <<pc, extra, web_system_info, result, parsed, config, wire,
                   parsed_config, error, kwargs>>

\* B = MinerConfig(pools=..., extra_config=extra_config)
AttachB ==
    /\ b_extra_config = 0
    /\ heap' = attach(heap, 1).heap
    /\ b_extra_config' = attach(heap, 1).ref
    /\ b_before' =
          [fields |-> heap'[b_extra_config'],
           wire   |-> MinerConfig_as_espminer(
                          MinerConfig(<<SamplePool>>, 1,
                                      Attached(heap'[b_extra_config'])))]
    /\ UNCHANGED <<a_extra_config, assigned>>
    /\ UNCHANGED <<pc, extra, web_system_info, result, parsed, config, wire,
                   parsed_config, error, kwargs>>

\* A.extra_config.<field_name> = value
SetField ==
    /\ a_extra_config # 0
    /\ \E field_name \in MutableFields, value \in OptInt :
          /\ heap[a_extra_config][field_name] # value
          /\ heap' = setattr(heap, a_extra_config, field_name, value)
    /\ UNCHANGED <<a_extra_config, b_extra_config, b_before, assigned>>
    /\ UNCHANGED <<pc, extra, web_system_info, result, parsed, config, wire,
                   parsed_config, error, kwargs>>

NextAttach ==
    \/ AttachA
    \/ AttachB
    \/ SetField

SpecAttach == InitAttach /\ [][NextAttach]_vars

(***************************************************************************)
(* One MinerConfig A whose extra_config is None at first: an instance is   *)
(* attached, its fields are assigned in place, and A is serialized between *)
(* the assignments.                                                        *)
(***************************************************************************)
\* A: the config as it is now
ConfigOfA ==
    IF a_extra_config = 0
    THEN MinerConfig(<<SamplePool>>, 1, NoExtraConfig)
    ELSE ConfigWith(a_extra_config)

\* current_cfg with extra_config None; the instance to attach is reference 1
InitMutate ==
    /\ pc = "config"
    /\ extra = DefaultExtraConfig
    /\ web_system_info = <<>>
    /\ result = <<>>
    /\ parsed = DefaultExtraConfig
    /\ config = DefaultMinerConfig
    /\ wire = <<>>
    /\ parsed_config = DefaultMinerConfig
    /\ error = ""
    /\ kwargs = <<>>
    /\ heap \in {<<e>> : e \in AttachInstances}
    /\ a_extra_config = 0
    /\ b_extra_config = 0
    /\ b_before = [fields |-> DefaultExtraConfig, wire |-> <<>>]
    /\ assigned = NothingAssigned

\* current_cfg.extra_config.<field_name> = value
Assign ==
    /\ a_extra_config # 0
    /\ \E field_name \in MutableFields, value \in OptInt :
          /\ heap' = setattr(heap, a_extra_config, field_name, value)
          /\ assigned' = [f \in DOMAIN assigned \cup {field_name} |->
                              IF f = field_name THEN value ELSE assigned[f]]
    /\ pc' = "assigned"
    /\ UNCHANGED <<a_extra_config, b_extra_config, b_before>>
    /\ UNCHANGED <<extra, web_system_info, result, parsed, config, wire,
                   parsed_config, error, kwargs>>

\* config_dict_with_extra = current_cfg.as_espminer()
Serialize ==
    /\ pc # "config_wire"
    /\ wire' = MinerConfig_as_espminer(ConfigOfA)
    /\ config' = ConfigOfA
    /\ pc' = "config_wire"
    /\ UNCHANGED attach_vars
    /\ UNCHANGED <<extra, web_system_info, result, parsed, parsed_config,
                   error, kwargs>>

NextMutate ==
    \/ AttachA
    \/ Assign
    \/ Serialize

SpecMutate == InitMutate /\ [][NextMutate]_vars

TypeOK ==
    /\ extra \in Instances
    /\ parsed \in Instances
    /\ error \in {"", "MalformedPayloadError", "AttributeError",
                  "ExtraConfigMismatch"}

(***************************************************************************)
(* The contract, as the specification states it.                           *)
(***************************************************************************)
\* The Field Mapper table of the specification: canonical name -> wire key.
WireKeyOf ==
    [rotation          |-> "rotation",
     invertscreen      |-> "invertscreen",
     display_timeout   |-> "displayTimeout",
     overheat_mode     |-> "overheat_mode",
     overclock_enabled |-> "overclockEnabled",
     stats_frequency   |-> "statsFrequency",
     min_fan_speed     |-> "minFanSpeed"]

\* The wire key the mapping table of as_espminer gives a field.
TableKey(f) == DictAt(field_mapping, f)

TableKeys == {field_mapping[i][2] : i \in 1..Len(field_mapping)}

\* The fields of an instance that are set.
SetFields(e) == {f \in FieldSet : e[f] # None}

\* The items of d whose key is in K, in d's order.
DictRestrict(d, K) == SelectSeq(d, LAMBDA item : item[1] \in K)

\* as_espminer has just returned result for the instance Receiver.
Serialized == pc \in {"record_wire", "payload_back"}

Receiver == IF pc = "record_wire" THEN extra ELSE parsed

\* from_espminer has just returned parsed for the dict web_system_info.
Parsed == pc \in {"payload_parsed", "record_back"}

\* MinerConfig.from_espminer has just returned parsed_config.
ConfigParsed == pc \in {"payload_config", "config_back"}

\* MinerConfig.as_espminer has just returned wire for the config Composed.
ConfigSerialized == pc \in {"config_wire", "payload_config_back"}

Composed == IF pc = "config_wire" THEN config ELSE parsed_config

\* C1: the keys of as_espminer() are exactly the table's wire keys of the
\* fields that are not None, each with the field's value (0 included), and
\* no key lies outside the seven-entry table.
C1_EmitsExactlySetFields ==
    Serialized =>
        /\ DictKeys(result) = {TableKey(f) : f \in SetFields(Receiver)}
        /\ \A f \in SetFields(Receiver) :
               DictAt(result, TableKey(f)) = Receiver[f]
        /\ \A f \in FieldSet :
               Receiver[f] = 0 => DictGet(result, TableKey(f)) = 0
        /\ DictKeys(result) \subseteq TableKeys
        /\ Len(field_mapping) = 7
        /\ Len(result) = Cardinality(DictKeys(result))

C1_Witness ==
    /\ pc = "record_wire"
    /\ extra.rotation = 0
    /\ extra.invertscreen = None
    /\ extra.display_timeout = 1
    /\ DictKeys(result) = {"rotation", "displayTimeout"}

\* C2: as_espminer() emits each set field under the wire key the
\* specification names for it, and from_espminer() reads each field from
\* that wire key, never from the snake_case name when the two differ.
C2_WireKeysBitExact ==
    /\ Serialized =>
          \A f \in SetFields(Receiver) :
             /\ DictHas(result, WireKeyOf[f])
             /\ DictAt(result, WireKeyOf[f]) = Receiver[f]
    /\ Serialized =>
          \A f \in FieldSet :
             WireKeyOf[f] # f => ~DictHas(result, f)
    /\ pc = "payload_parsed" =>
          \A f \in FieldSet :
             /\ DictHas(web_system_info, WireKeyOf[f])
                   => parsed[f] = DictAt(web_system_info, WireKeyOf[f])
             /\ (WireKeyOf[f] # f /\ ~DictHas(web_system_info, WireKeyOf[f]))
                   => parsed[f] = None

C2_Witness ==
    /\ pc = "payload_parsed"
    /\ DictHas(web_system_info, "display_timeout")
    /\ ~DictHas(web_system_info, "displayTimeout")
    /\ DictHas(web_system_info, "statsFrequency")
    /\ parsed.stats_frequency = 1
    /\ parsed.display_timeout = None

\* C3: from_espminer(p) gives each field p's value at the field's wire key
\* when the key is present, and None, never 0, when it is absent.
C3_FromEspminerPopulates ==
    Parsed =>
        \A f \in FieldSet :
           IF DictHas(web_system_info, WireKeyOf[f])
           THEN parsed[f] = DictAt(web_system_info, WireKeyOf[f])
           ELSE parsed[f] = None

C3_Witness ==
    /\ pc = "payload_parsed"
    /\ DictHas(web_system_info, "rotation")
    /\ DictAt(web_system_info, "rotation") = 1
    /\ DictHas(web_system_info, "invertscreen")
    /\ DictAt(web_system_info, "invertscreen") = 0
    /\ ~DictHas(web_system_info, "displayTimeout")
    /\ parsed.rotation = 1
    /\ parsed.invertscreen = 0
    /\ parsed.display_timeout = None

\* C4: from_espminer(x.as_espminer()) == x for every instance x, with all,
\* some or none of its fields set.
C4_RoundTripFromRecord ==
    pc = "record_back" => parsed = extra

C4_Witness ==
    /\ pc = "record_back"
    /\ extra.rotation = 0
    /\ extra.display_timeout = 1
    /\ extra.min_fan_speed = None
    /\ DictEq(web_system_info, result)

\* C5: from_espminer(p).as_espminer() is a sub-mapping of p: each of its
\* keys is one of the seven wire keys, is in p with a non-null value, and
\* carries p's value.
C5_RoundTripFromPayload ==
    pc = "payload_back" =>
        \A k \in DictKeys(result) :
           /\ k \in {WireKeyOf[f] : f \in FieldSet}
           /\ DictHas(web_system_info, k)
           /\ DictAt(web_system_info, k) # None
           /\ DictAt(result, k) = DictAt(web_system_info, k)

C5_Witness ==
    /\ pc = "payload_back"
    /\ DictHas(web_system_info, "networkDifficulty")
    /\ DictHas(web_system_info, "overclockEnabled")
    /\ DictAt(web_system_info, "overclockEnabled") = None
    /\ DictHas(web_system_info, "rotation")
    /\ DictAt(web_system_info, "rotation") = 0
    /\ DictKeys(result) = {"rotation"}

\* No extra wire key of the payload carries a value.
NoExtraValue(p) ==
    \A f \in FieldSet : DictGet(p, WireKeyOf[f]) = None

\* C6: an accepted payload in which none of the seven wire keys carries a
\* value gives a MinerConfig whose extra_config is None.
C6_NoExtrasGivesNone ==
    (ConfigParsed /\ NoExtraValue(web_system_info)) =>
        parsed_config.extra_config = NoExtraConfig

C6_Witness ==
    /\ pc = "payload_config"
    /\ NoExtraValue(web_system_info)
    /\ DictHas(web_system_info, "stratumURL")
    /\ DictHas(web_system_info, "min_fan_speed")
    /\ parsed_config.extra_config = NoExtraConfig

\* C7: an accepted payload in which a wire key carries an integer (0
\* included) gives a MinerConfig whose extra_config is an instance with
\* exactly the fields of the keys that carry a value set, the others None.
C7_SomeExtraGivesInstance ==
    (ConfigParsed /\ ~NoExtraValue(web_system_info)) =>
        /\ parsed_config.extra_config # NoExtraConfig
        /\ Len(parsed_config.extra_config) = 1
        /\ \A f \in FieldSet :
              parsed_config.extra_config[1][f]
                 = DictGet(web_system_info, WireKeyOf[f])

C7_Witness ==
    /\ pc = "payload_config"
    /\ DictHas(web_system_info, "networkDifficulty")
    /\ DictKeys(web_system_info) \cap {WireKeyOf[f] : f \in FieldSet}
          = {"invertscreen"}
    /\ DictAt(web_system_info, "invertscreen") = 0
    /\ parsed_config.extra_config # NoExtraConfig
    /\ SetFields(parsed_config.extra_config[1]) = {"invertscreen"}

\* C8: keys from_espminer does not recognize change nothing: the instance
\* parsed from a payload is the one parsed from its seven wire keys alone.
C8_UnrecognizedKeysIgnored ==
    pc = "payload_parsed" =>
        /\ parsed \in Instances
        /\ parsed = from_espminer(
               DictRestrict(web_system_info, {WireKeyOf[f] : f \in FieldSet}))

C8_Witness ==
    /\ pc = "payload_parsed"
    /\ DictHas(web_system_info, "networkDifficulty")
    /\ DictHas(web_system_info, "stratumURL")
    /\ DictHas(web_system_info, "autofanspeed")
    /\ DictHas(web_system_info, "overheat_mode")
    /\ parsed.overheat_mode = 1

\* C9: the payload of a MinerConfig whose extra_config is None has none of
\* the seven extra wire keys.
C9_NoExtraConfigNoExtraKeys ==
    (ConfigSerialized /\ Composed.extra_config = NoExtraConfig) =>
        DictKeys(wire) \cap {WireKeyOf[f] : f \in FieldSet} = {}

C9_Witness ==
    /\ pc = "config_wire"
    /\ config.extra_config = NoExtraConfig
    /\ config.pools # <<>>
    /\ DictHas(wire, "stratumURL")
    /\ DictHas(wire, "autofanspeed")

\* C10: the payload of a MinerConfig with extra_config e holds every item of
\* e.as_espminer() unchanged (0 included) next to the pool and fan keys, and
\* no extra wire key for a field of e that is None.
C10_ExtraConfigMerged ==
    (ConfigSerialized /\ Composed.extra_config # NoExtraConfig) =>
        LET e == Composed.extra_config[1]
            d == as_espminer(e)
        IN  /\ \A k \in DictKeys(d) :
                  DictHas(wire, k) /\ DictAt(wire, k) = DictAt(d, k)
            /\ \A f \in SetFields(e) : DictGet(wire, WireKeyOf[f]) = e[f]
            /\ \A f \in FieldSet \ SetFields(e) : ~DictHas(wire, WireKeyOf[f])
            /\ DictGet(wire, "autofanspeed") = Composed.fan_mode
            /\ Composed.pools # <<>> =>
                  DictGet(wire, "stratumURL") = Composed.pools[1].url

C10_Witness ==
    /\ pc = "config_wire"
    /\ config.extra_config # NoExtraConfig
    /\ config.extra_config[1].invertscreen = 0
    /\ config.extra_config[1].rotation = 1
    /\ config.extra_config[1].display_timeout = None
    /\ DictGet(wire, "invertscreen") = 0
    /\ DictHas(wire, "stratumURL")
    /\ ~DictHas(wire, "displayTimeout")

\* C11 as stated: MinerConfig.from_espminer(c.as_espminer()) gives back every
\* canonical field of c, extra_config included.
C11_RoundTripCanonical ==
    pc = "config_back" => parsed_config = config

\* C11 as amended: pools and fan mode come back unchanged; extra_config comes
\* back unchanged when it is None or has a field set, and comes back as None
\* when it is an instance with every field None.
C11_RoundTripCanonicalAmended ==
    pc = "config_back" =>
        /\ parsed_config.pools = config.pools
        /\ parsed_config.fan_mode = config.fan_mode
        /\ parsed_config.extra_config =
              (IF config.extra_config # NoExtraConfig
                  /\ SetFields(config.extra_config[1]) = {}
               THEN NoExtraConfig
               ELSE config.extra_config)

C11_Witness ==
    /\ pc = "config_back"
    /\ config.pools # <<>>
    /\ config.fan_mode = 0
    /\ config.extra_config # NoExtraConfig
    /\ config.extra_config[1].rotation = 0
    /\ config.extra_config[1].min_fan_speed = 1
    /\ parsed_config = config

\* MinerConfig.from_espminer has been called on web_system_info.
ConfigParseTried ==
    pc \in {"payload_config", "payload_config_back", "config_back", "raised"}

\* C13: MinerConfig.from_espminer on a payload without autofanspeed fails
\* with a data error and returns no MinerConfig, whatever else it holds.
C13_FanIndicatorRequired ==
    (ConfigParseTried /\ ~DictHas(web_system_info, "autofanspeed")) =>
        /\ pc = "raised"
        /\ error # ""
        /\ parsed_config = DefaultMinerConfig

C13_Witness ==
    /\ pc = "raised"
    /\ DictHas(web_system_info, "stratumURL")
    /\ DictHas(web_system_info, "rotation")
    /\ ~DictHas(web_system_info, "autofanspeed")
    /\ error # ""

\* C17: the pool and fan keys of MinerConfig.as_espminer() are disjoint from
\* the seven extra wire keys, so the merge overwrites nothing: every base
\* item and every extra item is in the payload with its own value.
C17_BaseAndExtraKeysDisjoint ==
    ConfigSerialized =>
        LET base == DictMerge(fan_mode_as_espminer(Composed.fan_mode),
                              pools_as_espminer(Composed.pools))
            ext  == extra_config_as_espminer(Composed.extra_config)
        IN  /\ DictKeys(base) \cap {WireKeyOf[f] : f \in FieldSet} = {}
            /\ DictKeys(base) \cap DictKeys(ext) = {}
            /\ \A k \in DictKeys(base) : DictGet(wire, k) = DictAt(base, k)
            /\ \A k \in DictKeys(ext) : DictGet(wire, k) = DictAt(ext, k)
            /\ Len(wire) = Len(base) + Len(ext)

C17_Witness ==
    /\ pc = "config_wire"
    /\ config.fan_mode = 0
    /\ config.extra_config # NoExtraConfig
    /\ config.extra_config[1].min_fan_speed = 1
    /\ DictGet(wire, "minFanSpeed") = 1
    /\ DictGet(wire, "autofanspeed") = 0

\* C19: nothing of an instance comes from networkDifficulty, and
\* as_espminer() never emits networkDifficulty or network_difficulty.
C19_TelemetryExcluded ==
    /\ Serialized =>
          DictKeys(result) \cap {"networkDifficulty", "network_difficulty"} = {}
    /\ pc = "payload_parsed" =>
          parsed = from_espminer(
              DictRestrict(web_system_info,
                  DictKeys(web_system_info) \ {"networkDifficulty"}))

C19_Witness ==
    /\ pc = "payload_back"
    /\ DictHas(web_system_info, "networkDifficulty")
    /\ DictHas(web_system_info, "statsFrequency")
    /\ parsed.stats_frequency = 1
    /\ DictKeys(result) = {"statsFrequency"}

\* The wire keys in the order the specification fixes.
WireKeyOrder ==
    <<"rotation", "invertscreen", "displayTimeout", "overheat_mode",
      "overclockEnabled", "statsFrequency", "minFanSpeed">>

\* The items as_espminer must return for e: the set fields, in that order.
ExpectedItems(e) ==
    SelectSeq([i \in 1..7 |-> <<WireKeyOrder[i], e[FieldNames[i]]>>],
              LAMBDA item : item[2] # None)

\* C20: as_espminer() leaves its receiver unchanged and from_espminer() leaves
\* its payload unchanged; each result is a function of the input alone, the
\* items of as_espminer() in the fixed order of the seven wire keys.
C20_NoSideEffects ==
    /\ [](Serialized => result = ExpectedItems(Receiver))
    /\ [](Parsed => \A f \in FieldSet :
                       parsed[f] = DictGet(web_system_info, WireKeyOf[f]))
    /\ [][(pc' # pc /\ pc' \in {"record_wire", "payload_back"})
             => (extra' = extra /\ parsed' = parsed)]_vars
    /\ [][(pc = "payload" /\ pc' = "payload_parsed")
             => web_system_info' = web_system_info]_vars
    /\ [][(pc = "record_wire" /\ pc' = "record_back")
             => (result' = result /\ web_system_info' = result)]_vars

C20_Witness ==
    /\ pc = "payload_back"
    /\ DictHas(web_system_info, "minFanSpeed")
    /\ web_system_info[1][1] = "stratumURL"
    /\ Len(result) = 2
    /\ result[1][1] = "rotation"
    /\ result[2][1] = "minFanSpeed"

Named == DictKeys(kwargs)

\* C18: a construction leaves every field it does not name None, all seven
\* when it names none, and as_espminer() of the all-None instance is empty.
C18_DefaultsAreNone ==
    pc \in {"constructed", "constructed_wire"} =>
        /\ \A f \in FieldSet \ Named : extra[f] = None
        /\ \A f \in Named : extra[f] = DictAt(kwargs, f)
        /\ kwargs = <<>> => extra = [f \in FieldSet |-> None]
        /\ (pc = "constructed_wire" /\ SetFields(extra) = {}) => result = <<>>

C18_Witness ==
    /\ pc = "constructed_wire"
    /\ kwargs = <<>>
    /\ SetFields(extra) = {}
    /\ result = <<>>

\* The payload is malformed: no mapping, or a base field of the wrong type.
Malformed(p) ==
    \/ p = NotAMapping
    \/ \E k \in {"autofanspeed", "stratumPort"} : DictGet(p, k) = Unparsable

ExtraParseTried == pc \in {"payload_parsed", "payload_back", "extra_raised"}

HoldsOtherVariant(c) == c.extra_config = Attached(OtherVendorExtraConfig)

\* MinerConfig.as_espminer has been called on config.
ComposeTried == pc \in {"config_wire", "config_back", "compose_raised"}

C21_MutationReflected ==
    pc = "config_wire" =>
        \A f \in DOMAIN assigned :
           IF assigned[f] = None
           THEN ~DictHas(wire, WireKeyOf[f])
           ELSE DictGet(wire, WireKeyOf[f]) = assigned[f]

C21_Witness ==
    /\ pc = "config_wire"
    /\ heap[1] = DefaultExtraConfig
    /\ DOMAIN assigned = {"invertscreen"}
    /\ assigned["invertscreen"] = 1
    /\ DictGet(wire, "invertscreen") = 1
    /\ ~DictHas(wire, "rotation")

\* The payload without its null-valued keys.
DropNulls(p) == SelectSeq(p, LAMBDA item : item[2] # None)

\* The instance a payload without nulls describes: a field has the value
\* of its wire key, and is None when the key is absent.
ReadPresent(p) ==
    [f \in FieldSet |->
        IF DictHas(p, WireKeyOf[f]) THEN DictAt(p, WireKeyOf[f]) ELSE None]

\* Some of the seven wire keys are in the payload and all of those are null.
OnlyNullExtras(p) ==
    /\ \E f \in FieldSet : DictHas(p, WireKeyOf[f])
    /\ \A f \in FieldSet :
          DictHas(p, WireKeyOf[f]) => DictAt(p, WireKeyOf[f]) = None

\* C22: from_espminer(p) is the instance of p without its null-valued keys;
\* when every wire key p holds is null the instance is all None and the
\* MinerConfig parsed from p has extra_config None.
C22_NullLikeAbsent ==
    /\ pc = "payload_parsed" =>
          /\ parsed = ReadPresent(DropNulls(web_system_info))
          /\ OnlyNullExtras(web_system_info) =>
                parsed = [f \in FieldSet |-> None]
    /\ (ConfigParsed /\ OnlyNullExtras(web_system_info)) =>
          parsed_config.extra_config = NoExtraConfig

C22_Witness ==
    /\ pc = "payload_parsed"
    /\ DictHas(web_system_info, "rotation")
    /\ DictAt(web_system_info, "rotation") = None
    /\ DictGet(web_system_info, "invertscreen") = 1
    /\ ~DictHas(web_system_info, "displayTimeout")
    /\ parsed.rotation = None
    /\ parsed.invertscreen = 1
    /\ parsed.display_timeout = None

\* The extra_config of the config is None or an instance with no field set.
NothingToSend(c) ==
    c.extra_config \in {NoExtraConfig, Attached([f \in FieldSet |-> None])}

\* The pool and fan items of the config's payload.
BaseItems(c) ==
    DictMerge(pools_as_espminer(c.pools), fan_mode_as_espminer(c.fan_mode))

\* C23: the payload of a config whose extra_config is an instance with every
\* field None is the payload of the same config with extra_config None, the
\* pool and fan items alone, and MinerConfig.from_espminer of that payload
\* has extra_config None in both cases.
C23_EmptyLikeAbsent ==
    /\ (pc \in {"config_wire", "config_back"} /\ NothingToSend(config)) =>
          /\ DictEq(wire, BaseItems(config))
          /\ DictKeys(wire) \cap {WireKeyOf[f] : f \in FieldSet} = {}
    /\ (pc = "config_back" /\ NothingToSend(config)) =>
          parsed_config.extra_config = NoExtraConfig

C23_Witness ==
    /\ pc = "config_back"
    /\ config.extra_config = Attached([f \in FieldSet |-> None])
    /\ config.fan_mode = 1
    /\ DictKeys(wire) = {"stratumURL", "stratumPort", "stratumUser",
                         "stratumPassword", "autofanspeed"}
    /\ parsed_config.extra_config = NoExtraConfig

====
